---- MODULE Spec2Model ----
(***************************************************************************)
(* Model of python_magnetdb/models.py: the SQLModel schema of the magnet   *)
(* database (Material, MSite, Magnet, MPart, MRecord and the two link      *)
(* tables), its Create / Read / Update view shapes, and the create, update *)
(* and link operations that act on a store with that schema.               *)
(*                                                                         *)
(* A class is a function from field names to field declarations.  An       *)
(* object (payload, row, view) is a function from field names to values;   *)
(* a field whose value is None is absent from the object's domain.         *)
(***************************************************************************)
EXTENDS Integers, Sequences, FiniteSets, TLC

VARIABLES db, last

vars == <<db, last>>

(***************************************************************************)
(* Bounds of the exploration.                                              *)
(***************************************************************************)
\* rows the entity tables hold together
MaxRows == 2
\* rows the two link tables hold together
MaxLinks == 2

(***************************************************************************)
(* Field declarations.                                                     *)
(***************************************************************************)
\* `name: T`: a required field
Req == [req |-> TRUE, hasdef |-> FALSE, pk |-> FALSE, fk |-> ""]

\* `name: Optional[T] = d` with d not None
Opt(d) == [req |-> FALSE, hasdef |-> TRUE, def |-> d, pk |-> FALSE, fk |-> ""]

\* `name: Optional[T] = None`
OptNone == [req |-> FALSE, hasdef |-> FALSE, pk |-> FALSE, fk |-> ""]

\* `Field(default=None, primary_key=True)`
PKey == [req |-> FALSE, hasdef |-> FALSE, pk |-> TRUE, fk |-> ""]

\* `Field(default=None, foreign_key="t.id")`
FKey(t) == [req |-> FALSE, hasdef |-> FALSE, pk |-> FALSE, fk |-> t]

\* `Field(default=None, foreign_key="t.id", primary_key=True)`
PFKey(t) == [req |-> FALSE, hasdef |-> FALSE, pk |-> TRUE, fk |-> t]

\* the object p with field f set to v
With(p, f, v) == [g \in (DOMAIN p) \cup {f} |-> IF g = f THEN v ELSE p[g]]

\* class Sub(Base): the fields of Base, with those Sub declares added or redeclared
Extend(base, own) ==
    [f \in (DOMAIN base) \cup (DOMAIN own) |->
        IF f \in DOMAIN own THEN own[f] ELSE base[f]]

(***************************************************************************)
(* Material                                                                *)
(***************************************************************************)
MaterialBase_AlphaDefaultNone ==
    [name |-> Req, Tref |-> Req, VolumicMass |-> Req, SpecificHeat |-> Req,
     alpha |-> OptNone, ElectricalConductivity |-> Opt(0),
     ThermalConductivity |-> Req, MagnetPermeability |-> Req,
     Young |-> Req, Poisson |-> Req, CoefDilatation |-> Req,
     ref |-> OptNone]

MaterialBase ==
    [name |-> Req, Tref |-> Req, VolumicMass |-> Req, SpecificHeat |-> Req,
     alpha |-> Opt(0), ElectricalConductivity |-> Opt(0),
     ThermalConductivity |-> Req, MagnetPermeability |-> Req,
     Young |-> Req, Poisson |-> Req, CoefDilatation |-> Req,
     ref |-> OptNone]

Material == Extend(MaterialBase, [id |-> PKey])

MaterialCreate == MaterialBase

MaterialRead_NoFields == [id |-> Req]

MaterialRead == Extend(MaterialBase, [id |-> Req])

MaterialUpdate_AllRequired ==
    [name |-> Req, Tref |-> Req, VolumicMass |-> Req, SpecificHeat |-> Req,
     alpha |-> Req, ElectricalConductivity |-> Req,
     ThermalConductivity |-> Req, MagnetPermeability |-> Req,
     Young |-> Req, Poisson |-> Req, CoefDilatation |-> Req,
     ref |-> Req]

MaterialUpdate ==
    [name |-> Req, Tref |-> Req, VolumicMass |-> Req, SpecificHeat |-> Req,
     alpha |-> Opt(0), ElectricalConductivity |-> Opt(0),
     ThermalConductivity |-> Req, MagnetPermeability |-> Req,
     Young |-> Req, Poisson |-> Req, CoefDilatation |-> Req,
     ref |-> OptNone]

(***************************************************************************)
(* Link tables                                                             *)
(***************************************************************************)
MPartMagnetLink_NoKey ==
    [magnet_id |-> FKey("magnet"), mpart_id |-> FKey("mpart")]

MPartMagnetLink ==
    [magnet_id |-> PFKey("magnet"), mpart_id |-> PFKey("mpart")]

MagnetMSiteLink ==
    [magnet_id |-> PFKey("magnet"), msite_id |-> PFKey("msite")]

(***************************************************************************)
(* MSite                                                                   *)
(***************************************************************************)
MSiteBase == [name |-> Req, conffile |-> Req, status |-> Req]

MSite == Extend(MSiteBase, [id |-> PKey])

\* MSite.magnets = Relationship(back_populates="msites", link_model=MagnetMSiteLink)
MSite_magnets_WrongLink ==
    [owner |-> "msite", target |-> "magnet", link |-> "mpartmagnetlink"]

MSite_magnets ==
    [owner |-> "msite", target |-> "magnet", link |-> "magnetmsitelink"]

MSiteRead == Extend(MSiteBase, [id |-> Req])

MSiteCreate == MSiteBase

MSiteUpdate ==
    [name |-> Req, conffile |-> Req, status |-> Req, magnets |-> Opt(<<>>)]

(***************************************************************************)
(* Magnet                                                                  *)
(***************************************************************************)
MagnetBase == [name |-> Req, be |-> Req, geom |-> Req, status |-> Req]

Magnet == Extend(MagnetBase, [id |-> PKey])

\* Magnet.msites = Relationship(back_populates="magnets", link_model=MagnetMSiteLink)
Magnet_msites_WrongLink ==
    [owner |-> "magnet", target |-> "msite", link |-> "mpartmagnetlink"]

Magnet_msites ==
    [owner |-> "magnet", target |-> "msite", link |-> "magnetmsitelink"]

\* Magnet.mparts = Relationship(back_populates="magnets", link_model=MPartMagnetLink)
Magnet_mparts_WrongLink ==
    [owner |-> "magnet", target |-> "mpart", link |-> "magnetmsitelink"]

Magnet_mparts ==
    [owner |-> "magnet", target |-> "mpart", link |-> "mpartmagnetlink"]

MagnetRead == Extend(MagnetBase, [id |-> Req])

MagnetCreate == MagnetBase

MagnetUpdate ==
    [name |-> Req, be |-> Req, geom |-> Req, status |-> Req,
     msites |-> Opt(<<>>), mparts |-> Opt(<<>>)]

(***************************************************************************)
(* MPart                                                                   *)
(***************************************************************************)
MPartBase_NoForeignKey ==
    [name |-> Req, type |-> Req, be |-> Req, geom |-> Req, status |-> Req,
     material_id |-> OptNone]

MPartBase ==
    [name |-> Req, type |-> Req, be |-> Req, geom |-> Req, status |-> Req,
     material_id |-> FKey("material")]

MPart == Extend(MPartBase, [id |-> PKey])

\* MPart.magnets = Relationship(back_populates="mparts", link_model=MPartMagnetLink)
MPart_magnets ==
    [owner |-> "mpart", target |-> "magnet", link |-> "mpartmagnetlink"]

MPartRead == Extend(MPartBase, [id |-> Req])

MPartCreate == MPartBase

MPartUpdate ==
    [name |-> Req, type |-> Req, be |-> Req, geom |-> Req, status |-> Req,
     material_id |-> OptNone, magnets |-> Opt(<<>>)]

(***************************************************************************)
(* MRecord                                                                 *)
(***************************************************************************)
MRecordBase ==
    [id |-> PKey, timestamp |-> Req, name |-> Req, msite_id |-> FKey("msite")]

MRecord == Extend(MRecordBase, [id |-> PKey])

MRecordRead == Extend(MRecordBase, [id |-> Req])

MRecordCreate == MRecordBase

MRecordUpdate_WithId ==
    [id |-> OptNone, timestamp |-> Req, name |-> Req, msite_id |-> OptNone]

MRecordUpdate ==
    [timestamp |-> Req, name |-> Req, msite_id |-> OptNone]

(***************************************************************************)
(* Expanded Read shapes                                                    *)
(***************************************************************************)
MPartReadWithMagnet == Extend(MPartRead, [magnets |-> Opt(<<>>)])

MagnetReadWithMParts == Extend(MagnetRead, [mparts |-> Opt(<<>>)])

MagnetReadWithMSite == Extend(MagnetRead, [msites |-> Opt(<<>>)])

MSiteReadWithMagnets == Extend(MSiteRead, [magnets |-> Opt(<<>>)])

(***************************************************************************)
(* The schema as a whole                                                   *)
(***************************************************************************)
Entities == {"material", "msite", "magnet", "mpart", "mrecord"}

LinkTables == {"mpartmagnetlink", "magnetmsitelink"}

Tables == Entities \cup LinkTables

\* the table=True class of each table (table name: the class name, lowercase)
TableClasses ==
    [material |-> Material, msite |-> MSite, magnet |-> Magnet, mpart |-> MPart,
     mrecord |-> MRecord, mpartmagnetlink |-> MPartMagnetLink,
     magnetmsitelink |-> MagnetMSiteLink]

TableClass(t) == TableClasses[t]

BaseClass(e) ==
    CASE e = "material" -> MaterialBase
      [] e = "msite" -> MSiteBase
      [] e = "magnet" -> MagnetBase
      [] e = "mpart" -> MPartBase
      [] e = "mrecord" -> MRecordBase

CreateClass(e) ==
    CASE e = "material" -> MaterialCreate
      [] e = "msite" -> MSiteCreate
      [] e = "magnet" -> MagnetCreate
      [] e = "mpart" -> MPartCreate
      [] e = "mrecord" -> MRecordCreate

ReadClass(e) ==
    CASE e = "material" -> MaterialRead
      [] e = "msite" -> MSiteRead
      [] e = "magnet" -> MagnetRead
      [] e = "mpart" -> MPartRead
      [] e = "mrecord" -> MRecordRead

UpdateClass(e) ==
    CASE e = "material" -> MaterialUpdate
      [] e = "msite" -> MSiteUpdate
      [] e = "magnet" -> MagnetUpdate
      [] e = "mpart" -> MPartUpdate
      [] e = "mrecord" -> MRecordUpdate

\* the Relationship attributes of each table class, by attribute name
Relationships(e) ==
    CASE e = "msite" -> [magnets |-> MSite_magnets]
      [] e = "magnet" -> [msites |-> Magnet_msites, mparts |-> Magnet_mparts]
      [] e = "mpart" -> [magnets |-> MPart_magnets]
      [] OTHER -> <<>>

\* the expanded Read shape that embeds relationship attribute f of entity e
ExpandedClass(e, f) ==
    CASE e = "mpart" /\ f = "magnets" -> MPartReadWithMagnet
      [] e = "magnet" /\ f = "mparts" -> MagnetReadWithMParts
      [] e = "magnet" /\ f = "msites" -> MagnetReadWithMSite
      [] e = "msite" /\ f = "magnets" -> MSiteReadWithMagnets

Expansions ==
    {<<"mpart", "magnets">>, <<"magnet", "mparts">>,
     <<"magnet", "msites">>, <<"msite", "magnets">>}

(***************************************************************************)
(* Input validation: building an object of class cls from a payload.       *)
(***************************************************************************)
\* the required fields of cls the payload does not supply
Missing(cls, payload) ==
    {f \in DOMAIN cls : cls[f].req /\ f \notin DOMAIN payload}

\* the object built from a payload that misses nothing: the fields of cls the
\* payload supplies, the others at their default, fields foreign to cls ignored
Parse(cls, payload) ==
    [f \in {g \in DOMAIN cls : g \in DOMAIN payload \/ cls[g].hasdef} |->
        IF f \in DOMAIN payload THEN payload[f] ELSE cls[f].def]

(***************************************************************************)
(* The store: each table a sequence of rows in insertion order.            *)
(***************************************************************************)
\* the primary-key columns a table class declares
PrimaryKeyOf(cls) == {c \in DOMAIN cls : cls[c].pk}

\* the foreign-key columns a table class declares, each with the table it points to
ForeignKeysOf(cls) == {<<c, cls[c].fk>> : c \in {k \in DOMAIN cls : cls[k].fk # ""}}

PrimaryKeys ==
    [material |-> PrimaryKeyOf(Material), msite |-> PrimaryKeyOf(MSite),
     magnet |-> PrimaryKeyOf(Magnet), mpart |-> PrimaryKeyOf(MPart),
     mrecord |-> PrimaryKeyOf(MRecord),
     mpartmagnetlink |-> PrimaryKeyOf(MPartMagnetLink),
     magnetmsitelink |-> PrimaryKeyOf(MagnetMSiteLink)]

ForeignKeys ==
    [material |-> ForeignKeysOf(Material), msite |-> ForeignKeysOf(MSite),
     magnet |-> ForeignKeysOf(Magnet), mpart |-> ForeignKeysOf(MPart),
     mrecord |-> ForeignKeysOf(MRecord),
     mpartmagnetlink |-> ForeignKeysOf(MPartMagnetLink),
     magnetmsitelink |-> ForeignKeysOf(MagnetMSiteLink)]

PrimaryKey(t) == PrimaryKeys[t]

Ids(d, t) == {d[t][i].id : i \in 1..Len(d[t])}

MaxOf(S) == IF S = {} THEN 0 ELSE CHOOSE x \in S : \A y \in S : y <= x

\* an integer primary key left unset is assigned by the store on insert
AutoKey(d, t, row) ==
    IF PrimaryKey(t) = {"id"} /\ "id" \notin DOMAIN row
    THEN With(row, "id", MaxOf(Ids(d, t)) + 1)
    ELSE row

\* a primary-key column is never null
NotNullOk(d, t) ==
    \A i \in 1..Len(d[t]) : PrimaryKey(t) \subseteq DOMAIN d[t][i]

\* no two rows of a table with a primary key have the same key
UniqueOk(d, t) ==
    PrimaryKey(t) # {} =>
        \A i, j \in 1..Len(d[t]) :
            (\A c \in PrimaryKey(t) :
                c \in DOMAIN d[t][i] /\ c \in DOMAIN d[t][j]
                /\ d[t][i][c] = d[t][j][c]) => i = j

\* foreign keys: every non-null foreign-key column holds the key of a row
ForeignKeysOk(d, t) ==
    \A i \in 1..Len(d[t]) : \A k \in ForeignKeys[t] :
        k[1] \in DOMAIN d[t][i] => d[t][i][k[1]] \in Ids(d, k[2])

Consistent(d) ==
    \A t \in Tables : NotNullOk(d, t) /\ UniqueOk(d, t) /\ ForeignKeysOk(d, t)

\* the error the store raises for a state that is not consistent
Violation(d) ==
    IF \E t \in Tables : ~UniqueOk(d, t) THEN "unique"
    ELSE IF \E t \in Tables : ~NotNullOk(d, t) THEN "not_null"
    ELSE "foreign_key"

\* the columns of a relationship's link table that point to table t
LinkCols(rel, t) == {k[1] : k \in {x \in ForeignKeys[rel.link] : x[2] = t}}

\* the link row of relationship rel between owner key id and target key tid
LinkRow(rel, id, tid) ==
    [c \in LinkCols(rel, rel.owner) \cup LinkCols(rel, rel.target) |->
        IF c \in LinkCols(rel, rel.owner) THEN id ELSE tid]

Owns(rel, id, r) == \E c \in LinkCols(rel, rel.owner) : c \in DOMAIN r /\ r[c] = id

Targets(rel, tid, r) == \E c \in LinkCols(rel, rel.target) : c \in DOMAIN r /\ r[c] = tid

\* the keys relationship rel lists for the owner with key id
Related(d, rel, id) ==
    {tid \in Ids(d, rel.target) :
        \E i \in 1..Len(d[rel.link]) :
            Owns(rel, id, d[rel.link][i]) /\ Targets(rel, tid, d[rel.link][i])}

RECURSIVE RowsOf(_, _, _)
\* the link rows for the owner id and the listed target keys, in list order
RowsOf(rel, id, tids) ==
    IF tids = <<>> THEN <<>>
    ELSE <<LinkRow(rel, id, Head(tids))>> \o RowsOf(rel, id, Tail(tids))

\* assigning a relationship attribute: the owner's link rows are replaced
SetRelated(d, rel, id, tids) ==
    [d EXCEPT ![rel.link] =
        SelectSeq(@, LAMBDA r : ~Owns(rel, id, r)) \o RowsOf(rel, id, tids)]

RECURSIVE SetAllRelated(_, _, _, _, _)
SetAllRelated(d, e, id, obj, fs) ==
    IF fs = {} THEN d
    ELSE LET f == CHOOSE g \in fs : TRUE
         IN SetAllRelated(SetRelated(d, Relationships(e)[f], id, obj[f]),
                          e, id, obj, fs \ {f})

RECURSIVE ReadAll(_, _)
\* the Read objects of the rows of a table, in order
ReadAll(cls, rows) ==
    IF rows = <<>> THEN <<>>
    ELSE <<Parse(cls, Head(rows))>> \o ReadAll(cls, Tail(rows))

RECURSIVE Joined(_, _, _, _)
\* the target rows the owner's link rows select, one per link row, in link order
Joined(d, rel, id, links) ==
    IF links = <<>> THEN <<>>
    ELSE (IF Owns(rel, id, Head(links))
          THEN SelectSeq(d[rel.target], LAMBDA r : Targets(rel, r.id, Head(links)))
          ELSE <<>>) \o Joined(d, rel, id, Tail(links))

\* the expanded Read object of row: its Read fields and the related Read objects
Expand(d, e, f, row) ==
    Parse(ExpandedClass(e, f),
          With(row, f, ReadAll(ReadClass(Relationships(e)[f].target),
                               Joined(d, Relationships(e)[f], row.id,
                                      d[Relationships(e)[f].link]))))

(***************************************************************************)
(* Payloads the callers send.                                              *)
(***************************************************************************)
NumericFields ==
    {"Tref", "VolumicMass", "SpecificHeat", "alpha", "ElectricalConductivity",
     "ThermalConductivity", "MagnetPermeability", "Young", "Poisson",
     "CoefDilatation"}

KeyFields == {"id", "material_id", "msite_id", "magnet_id", "mpart_id"}

ListFields == {"magnets", "msites", "mparts"}

\* the lists of keys a payload gives for a relationship attribute
Lists == {<<>>, <<1>>, <<MaxRows, 1>>, <<1, 1>>}

\* the values a payload gives to field f (op: the operation it is sent to)
Values(op, f) ==
    IF f \in KeyFields THEN {1, MaxRows}
    ELSE IF f \in ListFields THEN Lists
    ELSE IF f \in NumericFields THEN {1}
    ELSE {"a"}

RECURSIVE Fulls(_, _)
\* the payloads that give a value to every field of fs
Fulls(op, fs) ==
    IF fs = {} THEN {<<>>}
    ELSE LET f == CHOOSE g \in fs : TRUE
         IN {With(p, f, v) : p \in Fulls(op, fs \ {f}), v \in Values(op, f)}

Drop(p, S) == [f \in (DOMAIN p) \ S |-> p[f]]

\* a payload for class cls: one with every required field and any of the
\* optional ones, or a complete one without one required field, or a complete
\* one with a key the class does not declare
Payloads(op, cls) ==
    LET full == Fulls(op, DOMAIN cls)
        opt == {f \in DOMAIN cls : ~cls[f].req}
        p0 == CHOOSE p \in full : TRUE
    IN {Drop(p, S) : p \in full, S \in SUBSET opt}
       \cup {Drop(p0, {f}) : f \in (DOMAIN cls) \ opt}
       \cup (IF "id" \in DOMAIN cls THEN {} ELSE {With(p0, "id", MaxRows)})

\* the payloads sent to create a row of each entity
CreatePayloads == [e \in Entities |-> Payloads("create", CreateClass(e))]

\* the payloads sent to update a row of each entity
UpdatePayloads == [e \in Entities |-> Payloads("update", UpdateClass(e))]

\* the rows sent for insertion into each link table
LinkPayloads == [t \in LinkTables |-> Fulls("link", DOMAIN TableClass(t))]

TotalRows(d, ts) ==
    LET RECURSIVE Sum(_)
        Sum(S) == IF S = {} THEN 0
                  ELSE LET t == CHOOSE u \in S : TRUE
                       IN Len(d[t]) + Sum(S \ {t})
    IN Sum(ts)

(***************************************************************************)
(* State and operations.                                                   *)
(***************************************************************************)
Init ==
    /\ db = [t \in Tables |-> <<>>]
    /\ last = [op |-> "none", table |-> "none", status |-> "ok"]

\* A rejected request and a read leave the store as it was and `last` is
\* overwritten by every request, so the requests that may follow one of them are
\* those that may follow the state before it: requests are taken from the
\* states in which the store was last changed (or is new).
Settled == last.status = "ok" /\ last.op # "read"

\* POST: validate the payload as the Create shape, build the table object from
\* it, insert it, and answer the Read shape of the stored row
Create(e, payload) ==
    /\ Settled
    /\ IF Missing(CreateClass(e), payload) # {}
       THEN /\ last' = [op |-> "create", table |-> e, payload |-> payload,
                        status |-> "invalid"]
            /\ UNCHANGED db
       ELSE LET obj == Parse(CreateClass(e), payload)
                row == AutoKey(db, e, Parse(TableClass(e), obj))
                d == [db EXCEPT ![e] = Append(@, row)]
            IN IF Consistent(d)
               THEN /\ TotalRows(d, Entities) <= MaxRows
                    /\ db' = d
                    /\ last' = [op |-> "create", table |-> e, payload |-> payload,
                                status |-> "ok", obj |-> obj,
                                result |-> Parse(ReadClass(e), row)]
               ELSE /\ last' = [op |-> "create", table |-> e, payload |-> payload,
                                status |-> Violation(d)]
                    /\ UNCHANGED db

\* the row after an update: every column the Update shape carries is replaced by
\* the object's value (null when the object has none), the others are kept
Replaced(e, row, obj) ==
    [c \in {k \in DOMAIN row : k \notin DOMAIN UpdateClass(e)}
           \cup {k \in DOMAIN TableClass(e) : k \in DOMAIN obj} |->
        IF c \in DOMAIN obj THEN obj[c] ELSE row[c]]

\* the relationship attributes of the row with key id, as loaded from the store
Loaded(d, e, id) ==
    [f \in DOMAIN Relationships(e) |-> Related(d, Relationships(e)[f], id)]

\* PATCH: validate the payload as the Update shape, replace the columns and the
\* relationship attributes of the i-th row by the object's, and answer the Read shape
Update(e, i, payload) ==
    /\ Settled
    /\ i \in 1..Len(db[e])
    /\ IF Missing(UpdateClass(e), payload) # {}
       THEN /\ last' = [op |-> "update", table |-> e, payload |-> payload,
                        status |-> "invalid", key |-> db[e][i].id]
            /\ UNCHANGED db
       ELSE LET obj == Parse(UpdateClass(e), payload)
                row == Replaced(e, db[e][i], obj)
                d1 == [db EXCEPT ![e][i] = row]
                d == SetAllRelated(d1, e, db[e][i].id, obj,
                                   (DOMAIN Relationships(e)) \cap (DOMAIN obj))
            IN /\ IF Consistent(d)
                  THEN /\ TotalRows(d, LinkTables) <= MaxLinks
                       /\ db' = d
                       /\ last' = [op |-> "update", table |-> e, payload |-> payload,
                                   status |-> "ok", key |-> db[e][i].id, obj |-> obj,
                                   loaded |-> Loaded(db, e, db[e][i].id),
                                   result |-> Parse(ReadClass(e), row)]
                  ELSE /\ last' = [op |-> "update", table |-> e, payload |-> payload,
                                   status |-> Violation(d), key |-> db[e][i].id]
                       /\ UNCHANGED db

\* insert of one row into a link table
Link(t, row) ==
    /\ Settled
    /\ LET d == [db EXCEPT ![t] = Append(@, row)]
       IN IF Consistent(d)
          THEN /\ TotalRows(d, LinkTables) <= MaxLinks
               /\ db' = d
               /\ last' = [op |-> "link", table |-> t, payload |-> row, status |-> "ok"]
          ELSE /\ last' = [op |-> "link", table |-> t, payload |-> row,
                           status |-> Violation(d)]
               /\ UNCHANGED db

\* removal of the i-th row of a link table
Unlink(t, i) ==
    /\ Settled
    /\ i \in 1..Len(db[t])
    /\ db' = [db EXCEPT ![t] = SubSeq(@, 1, i - 1) \o SubSeq(@, i + 1, Len(@))]
    /\ last' = [op |-> "unlink", table |-> t, payload |-> db[t][i], status |-> "ok"]

\* GET of an expanded Read shape of the i-th row of entity e
ReadExpanded(e, f, i) ==
    /\ Settled
    /\ i \in 1..Len(db[e])
    /\ last' = [op |-> "read", table |-> e, attr |-> f, status |-> "ok",
                key |-> db[e][i].id, result |-> Expand(db, e, f, db[e][i])]
    /\ UNCHANGED db

Next ==
    \/ \E e \in Entities : \E p \in CreatePayloads[e] : Create(e, p)
    \/ \E e \in Entities : \E i \in 1..MaxRows :
          \E p \in UpdatePayloads[e] : Update(e, i, p)
    \/ \E t \in LinkTables : \E r \in LinkPayloads[t] : Link(t, r)
    \/ \E t \in LinkTables : \E i \in 1..MaxLinks : Unlink(t, i)
    \/ \E x \in Expansions : \E i \in 1..MaxRows : ReadExpanded(x[1], x[2], i)

Spec == Init /\ [][Next]_vars

(***************************************************************************)
(* Properties.                                                             *)
(***************************************************************************)
\* the rows of table t of store d, as a set
Rows(d, t) == {d[t][i] : i \in 1..Len(d[t])}

\* C1: a Create payload that lacks a key, once persisted, yields an object of the
\* Read shape whose fields are the payload's and whose key is one no row of the
\* entity had before; the row stored is that object.
C1_CreateYieldsRead ==
    [][(last'.op = "create" /\ last'.status = "ok" /\ "id" \notin DOMAIN last'.payload)
        => /\ Missing(ReadClass(last'.table), last'.result) = {}
           /\ DOMAIN last'.result \subseteq DOMAIN ReadClass(last'.table)
           /\ \A f \in (DOMAIN last'.payload) \cap (DOMAIN BaseClass(last'.table)) :
                 f \in DOMAIN last'.result /\ last'.result[f] = last'.payload[f]
           /\ last'.result.id \notin Ids(db, last'.table)
           /\ Len(db'[last'.table]) = Len(db[last'.table]) + 1
           /\ db'[last'.table][Len(db'[last'.table])] = last'.result]_vars

\* a second MRecord was created from a payload without a key
C1_Witness ==
    /\ last.op = "create" /\ last.status = "ok" /\ last.table = "mrecord"
    /\ "id" \notin DOMAIN last.payload
    /\ Len(db["mrecord"]) = 2

\* C2: the Create shape of every entity has the fields of its Base shape and no
\* key among them, so the object built from a creation payload carries no key.
C2_CreateCarriesNoKey ==
    (last.op = "create" /\ last.status = "ok")
        => /\ DOMAIN CreateClass(last.table) = DOMAIN BaseClass(last.table)
           /\ "id" \notin DOMAIN last.obj

\* C3: a link table holds at most one row per pair, and the insert of a pair it
\* already holds fails with a uniqueness violation and leaves the store as it was.
C3_LinkPairsUnique ==
    /\ [](\A t \in LinkTables : \A i, j \in 1..Len(db[t]) :
            db[t][i] = db[t][j] => i = j)
    /\ [][(last'.op = "link" /\ last'.payload \in Rows(db, last'.table))
            => (last'.status = "unique" /\ db' = db)]_vars

\* the pair (magnet, mpart) was inserted a second time and refused
C3_Witness ==
    /\ last.op = "link" /\ last.status = "unique"
    /\ last.table = "mpartmagnetlink"
    /\ last.payload \in Rows(db, "mpartmagnetlink")

\* C4: every non-null MPart.material_id is the key of a Material; the insert of
\* an MPart whose material_id is the key of no Material fails with a
\* foreign-key violation and leaves the store as it was, and the insert of an
\* MPart without material_id is accepted.
C4_MaterialReference ==
    /\ [](\A r \in Rows(db, "mpart") :
            "material_id" \in DOMAIN r => r.material_id \in Ids(db, "material"))
    /\ [][(last'.op = "create" /\ last'.table = "mpart" /\ last'.status # "invalid")
            => IF "material_id" \in DOMAIN last'.payload
                  /\ last'.payload.material_id \notin Ids(db, "material")
               THEN last'.status = "foreign_key" /\ db' = db
               ELSE last'.status = "ok"]_vars

\* an MPart naming a Material that does not exist was refused while another exists
C4_Witness ==
    /\ last.op = "create" /\ last.table = "mpart" /\ last.status = "foreign_key"
    /\ Len(db["material"]) >= 1

\* C5: after a Magnet was updated with an empty msites (mparts) collection it is
\* linked to no site (part), and no site (part) lists it.
C5_EmptyUpdateClears ==
    (last.op = "update" /\ last.table = "magnet" /\ last.status = "ok")
        => /\ ("msites" \in DOMAIN last.payload /\ last.payload.msites = <<>>)
                => /\ \A r \in Rows(db, "magnetmsitelink") : r.magnet_id # last.key
                   /\ Related(db, Magnet_msites, last.key) = {}
                   /\ \A s \in Ids(db, "msite") :
                         last.key \notin Related(db, MSite_magnets, s)
           /\ ("mparts" \in DOMAIN last.payload /\ last.payload.mparts = <<>>)
                => /\ \A r \in Rows(db, "mpartmagnetlink") : r.magnet_id # last.key
                   /\ Related(db, Magnet_mparts, last.key) = {}
                   /\ \A q \in Ids(db, "mpart") :
                         last.key \notin Related(db, MPart_magnets, q)

\* a Magnet that was linked to a site was updated with msites = []
C5_Witness ==
    /\ last.op = "update" /\ last.table = "magnet" /\ last.status = "ok"
    /\ "msites" \in DOMAIN last.payload /\ last.payload.msites = <<>>
    /\ last.loaded.msites # {}

\* C6: the mparts of a MagnetReadWithMParts are the Read objects of exactly the
\* MParts p with a row (magnet, p) in the Magnet-MPart link table, each once.
C6_ExpandedReadExact ==
    (last.op = "read" /\ last.table = "magnet" /\ last.attr = "mparts")
        => /\ {last.result.mparts[i] : i \in 1..Len(last.result.mparts)}
                = {Parse(MPartRead, r) :
                     r \in {q \in Rows(db, "mpart") :
                              [magnet_id |-> last.key, mpart_id |-> q.id]
                                  \in Rows(db, "mpartmagnetlink")}}
           /\ \A i, j \in 1..Len(last.result.mparts) :
                 last.result.mparts[i] = last.result.mparts[j] => i = j

\* a Magnet with a linked MPart was read in its expanded shape
C6_Witness ==
    /\ last.op = "read" /\ last.table = "magnet" /\ last.attr = "mparts"
    /\ Len(last.result.mparts) >= 1

\* the fields each Update shape declares without a default
C7_Required ==
    [material |-> {"name", "Tref", "VolumicMass", "SpecificHeat",
                   "ThermalConductivity", "MagnetPermeability", "Young",
                   "Poisson", "CoefDilatation"},
     msite |-> {"name", "conffile", "status"},
     magnet |-> {"name", "be", "geom", "status"},
     mpart |-> {"name", "type", "be", "geom", "status"},
     mrecord |-> {"timestamp", "name"}]

\* C7 as claimed: an Update payload that is not rejected supplies every field of
\* the Update shape.
C7_EveryFieldResupplied ==
    (last.op = "update" /\ last.status # "invalid")
        => DOMAIN UpdateClass(last.table) \subseteq DOMAIN last.payload

\* C7 as amended: an Update payload is rejected exactly when it omits a field
\* declared without a default; an omitted field declared with a default is
\* completed with it in the Update object (alpha and ElectricalConductivity 0,
\* ref, material_id and msite_id None, the relationship lists empty).
C7_RequiredFieldsResupplied ==
    last.op = "update"
        => /\ last.status = "invalid"
                <=> ~(C7_Required[last.table] \subseteq DOMAIN last.payload)
           /\ last.status = "ok"
                => /\ \A f \in {"alpha", "ElectricalConductivity"} :
                        (last.table = "material" /\ f \notin DOMAIN last.payload)
                            => f \in DOMAIN last.obj /\ last.obj[f] = 0
                   /\ \A f \in {"ref", "material_id", "msite_id"} :
                        (f \in DOMAIN UpdateClass(last.table)
                         /\ f \notin DOMAIN last.payload)
                            => f \notin DOMAIN last.obj
                   /\ \A f \in ListFields :
                        (f \in DOMAIN UpdateClass(last.table)
                         /\ f \notin DOMAIN last.payload)
                            => f \in DOMAIN last.obj /\ last.obj[f] = <<>>

\* a Material was updated by a payload without alpha
C7_Witness ==
    /\ last.op = "update" /\ last.table = "material" /\ last.status = "ok"
    /\ "alpha" \notin DOMAIN last.payload
    /\ last.obj.alpha = 0

\* C8: the rows of an entity have distinct keys, and no create or update changes
\* the key of a row or removes the row, whatever key the payload names.
C8_KeysUniqueImmutable ==
    /\ [](\A e \in Entities : \A i, j \in 1..Len(db[e]) :
            db[e][i].id = db[e][j].id => i = j)
    /\ [][\A e \in Entities : \A i \in 1..Len(db[e]) :
            i <= Len(db'[e]) /\ db'[e][i].id = db[e][i].id]_vars

\* a row was updated by a payload naming another key than its own
C8_Witness ==
    /\ last.op = "update" /\ last.status = "ok"
    /\ "id" \in DOMAIN last.payload /\ last.payload.id # last.key
    /\ last.result.id = last.key

\* C9: a Material created without alpha or ElectricalConductivity is stored with
\* 0 for it, and a payload without one of the other numeric fields is rejected.
C9_MaterialDefaults ==
    (last.op = "create" /\ last.table = "material")
        => /\ \A f \in {"Tref", "VolumicMass", "SpecificHeat", "ThermalConductivity",
                        "MagnetPermeability", "Young", "Poisson", "CoefDilatation"} :
                 f \notin DOMAIN last.payload => last.status = "invalid"
           /\ C7_Required["material"] \subseteq DOMAIN last.payload
                 => last.status = "ok"
           /\ last.status = "ok"
                 => \A f \in {"alpha", "ElectricalConductivity"} :
                       f \notin DOMAIN last.payload
                           => \E r \in Rows(db, "material") :
                                 /\ r.id = last.result.id
                                 /\ f \in DOMAIN r /\ r[f] = 0

\* a Material was created by a payload without alpha
C9_Witness ==
    /\ last.op = "create" /\ last.table = "material" /\ last.status = "ok"
    /\ "alpha" \notin DOMAIN last.payload
    /\ "ElectricalConductivity" \in DOMAIN last.payload

\* C10: MPart p is among the mparts of Magnet m exactly when m is among the
\* magnets of p, and MSite s among the msites of m exactly when m is among the
\* magnets of s.
C10_BothSidesAgree ==
    \A m \in Ids(db, "magnet") :
        /\ \A q \in Ids(db, "mpart") :
              q \in Related(db, Magnet_mparts, m)
                  <=> m \in Related(db, MPart_magnets, q)
        /\ \A s \in Ids(db, "msite") :
              s \in Related(db, Magnet_msites, m)
                  <=> m \in Related(db, MSite_magnets, s)

\* an update of an MSite linked it to a Magnet
C10_Witness ==
    /\ last.op = "update" /\ last.table = "msite" /\ last.status = "ok"
    /\ \E m \in Ids(db, "magnet") : last.key \in Related(db, Magnet_msites, m)

====
